---- MODULE Spec2Model ----
(***************************************************************************)
(* Community Map API (backend/server.py): the handlers over the           *)
(* db.incidents, db.active_users, db.chat_messages and                     *)
(* db.street_highlights collections.                                       *)
(*                                                                         *)
(* Every handler is a coroutine; each awaited store call is one atomic     *)
(* step, and steps of handlers serving different requests interleave.      *)
(*                                                                         *)
(* Time is counted in ticks.  datetime.isoformat() prints the whole        *)
(* seconds and, only when it is not zero, the fraction of a second; the    *)
(* model keeps that shape with the minute as the printed whole unit and    *)
(* Minute ticks per minute, so that the six-hour window is 6 * Hour ticks  *)
(* and a timestamp has a fractional part exactly when it is not a multiple *)
(* of Minute.                                                              *)
(***************************************************************************)
EXTENDS Integers, Sequences, FiniteSets, TLC

VARIABLES
    clock,      \* datetime.now(timezone.utc), in ticks
    incidents,  \* db.incidents, in the store's natural (insertion) order
    nextId,     \* the next value of uuid.uuid4(): identifiers are never reused
    pc,         \* per request flow: the awaited store call it is suspended before
    local,      \* per request flow: the handler's local variables
    resp,       \* the HTTP response produced by the step just taken, if any
    hist,       \* history: per identifier, the $inc operations applied to it
    used,       \* history: the reactions and updates requested so far
    active_users,       \* db.active_users, in natural order
    chat_messages,      \* db.chat_messages, in natural order
    street_highlights,  \* db.street_highlights, in natural order
    calls       \* history: the calls made to the three collections above

\* the collections other than db.incidents, and their history
aux == <<active_users, chat_messages, street_highlights, calls>>

vars == <<clock, incidents, nextId, pc, local, resp, hist, used,
          active_users, chat_messages, street_highlights, calls>>

----------------------------------------------------------------------------
(* Bounds of the model *)

MaxIncidents == 3   \* incidents created in one behaviour
MaxReacts == 3      \* valid reactions requested in one behaviour
MaxUpdates == 1     \* updates requested in one behaviour
MaxLatency == 1     \* ticks a request may stay suspended on the store
MaxBeats == 4       \* distinct heartbeat calls in one behaviour
MaxPosts == 2       \* chat messages posted in one behaviour
Minute == 2         \* ticks per minute

Hour == 60 * Minute

\* the instants at which something happens
Instants == {0, 1, Hour, 2 * Hour, 6 * Hour, 6 * Hour + 1, 7 * Hour}

Procs == {"p1", "p2"}

----------------------------------------------------------------------------
(* Program constants *)

RetentionHours == 6
ClusterRadius == 500
ToListLimit == 1000
PresenceMinutes == 2
ChatRetentionHours == 24

None == "None"

----------------------------------------------------------------------------
(* Timestamps: isoformat, fromisoformat and the store's string order *)

PlusChar == 43   \* '+', the first character of the UTC offset
DotChar == 46    \* '.', the first character of the fraction

\* timedelta(hours=h), timedelta(minutes=m)
Hours(h) == h * Hour

Minutes(m) == m * Minute

\* datetime.isoformat(): "<date>T<time>+00:00", or "<date>T<time>.<fraction>+00:00"
\* when the fraction is not zero.  The date-time part and the fraction are
\* fixed-width digit strings, kept as numbers; the character after the
\* date-time part is kept as its code.
IsoFormat(t) ==
    IF t % Minute = 0 THEN <<t \div Minute, PlusChar>>
                      ELSE <<t \div Minute, DotChar, t % Minute>>

\* datetime.fromisoformat()
FromIsoFormat(s) ==
    IF s[2] = DotChar THEN s[1] * Minute + s[3] ELSE s[1] * Minute

\* The store's $lt on two strings: binary comparison, character by character.
StrLess(a, b) ==
    \/ a[1] < b[1]
    \/ /\ a[1] = b[1]
       /\ \/ a[2] < b[2]
          \/ a[2] = b[2] /\ a[2] = DotChar /\ a[3] < b[3]

----------------------------------------------------------------------------
(* Inputs *)

\* Coordinates in units of 0.0001 degree: three points on one meridian in
\* Melbourne, 300 m apart.
Points == << <<-378136, 1449631>>, <<-378109, 1449631>>, <<-378082, 1449631>> >>

\* calculate_distance at the points above, as the source computes it
\* (300.22630194079403, 600.4526038807979, 300.2263019400039 and 0.0), in
\* metres rounded up: for a whole number r, d <= r iff ceiling(d) <= r.
\* Row i, column j is the call with point i as (lat1, lon1) and point j as
\* (lat2, lon2).
DistanceTable == << <<0, 301, 601>>, <<301, 0, 301>>, <<601, 301, 0>> >>

\* The same calls with delta_phi computed as phi2 - lat1, the first latitude
\* left in degrees.
DegreesTable ==
    << <<3475277, 3474977, 3474676>>,
       <<3492479, 3492178, 3491878>>,
       <<3509680, 3509380, 3509080>> >>

PointOf(lat, lon) == CHOOSE i \in 1..Len(Points) : Points[i] = <<lat, lon>>

\* IncidentCreate request bodies
Inputs == <<
    [category |-> "theft", description |-> "d",
     latitude |-> Points[1][1], longitude |-> Points[1][2],
     contact_email |-> "x@y.com", contact_phone |-> None, is_verified |-> FALSE],
    [category |-> "theft", description |-> "d",
     latitude |-> Points[2][1], longitude |-> Points[2][2],
     contact_email |-> None, contact_phone |-> None, is_verified |-> TRUE],
    [category |-> "theft", description |-> "d",
     latitude |-> Points[3][1], longitude |-> Points[3][2],
     contact_email |-> "", contact_phone |-> "", is_verified |-> FALSE],
    [category |-> "protest", description |-> "d",
     latitude |-> Points[1][1], longitude |-> Points[1][2],
     contact_email |-> None, contact_phone |-> "0400", is_verified |-> TRUE] >>

\* PUT /admin/incidents/{id} request bodies
Payloads == <<
    <<>>,
    [id |-> 99],
    [id |-> 99, description |-> "x"],
    [timestamp |-> IsoFormat(0), id |-> 99],
    [contact_email |-> None, contact_phone |-> None],
    [is_verified |-> TRUE],
    [is_verified |-> FALSE],
    [like_count |-> 0],
    [like_count |-> -1, cluster_count |-> 0] >>

\* ChatMessageCreate request bodies
ChatInputs == <<
    [message |-> "hi", author |-> "ann"],
    [message |-> "yo", author |-> None],
    [message |-> "ok", author |-> ""] >>

\* StreetHighlightCreate request bodies
StreetInputs == <<
    [start_lat |-> Points[1][1], start_lng |-> Points[1][2],
     end_lat |-> Points[2][1], end_lng |-> Points[2][2],
     color |-> "red", reason |-> "crowded", description |-> None],
    [start_lat |-> Points[2][1], start_lng |-> Points[2][2],
     end_lat |-> Points[3][1], end_lng |-> Points[3][2],
     color |-> "yellow", reason |-> "other", description |-> "dark"] >>

\* PUT /admin/street-highlights/{id} request bodies
StreetPayloads == <<
    <<>>,
    [id |-> 99, created_at |-> IsoFormat(0)],
    [color |-> "green"],
    [color |-> "green", id |-> 99] >>

\* the ?hours= query argument: <<>> when absent, <<h>> when supplied
HoursArgs == {<<>>, <<-1>>, <<0>>, <<1>>}

Reactions == {"like", "dislike", "neutral"}

----------------------------------------------------------------------------
(* The document store *)

\* cursor.to_list(length)
ToList(cursor, length) ==
    IF Len(cursor) <= length THEN cursor ELSE SubSeq(cursor, 1, length)

\* find({"category": c})
FindByCategory(coll, c) == SelectSeq(coll, LAMBDA d : d.category = c)

\* the first document matching {"id": id}, 0 when there is none
FirstMatch(coll, id) ==
    LET hits == {i \in 1..Len(coll) : coll[i].id = id}
    IN  IF hits = {} THEN 0 ELSE CHOOSE i \in hits : \A j \in hits : i <= j

\* delete_one at a position
RemoveAt(coll, i) == SubSeq(coll, 1, i - 1) \o SubSeq(coll, i + 1, Len(coll))

\* Faulty variant of insert_one: the insert also raises the cluster_count of
\* the stored incidents of the same category (a live aggregate).
InsertOneRecount(coll, doc) ==
    Append([i \in 1..Len(coll) |->
               IF coll[i].category = doc.category
               THEN [coll[i] EXCEPT !.cluster_count = @ + 1]
               ELSE coll[i]],
           doc)

\* insert_one
InsertOne(coll, doc) == Append(coll, doc)

\* {"$set": data} on one document
SetFields(doc, data) ==
    [f \in DOMAIN doc |-> IF f \in DOMAIN data THEN data[f] ELSE doc[f]]

\* Faulty variant of $inc: the counter is written as 1 instead of being
\* incremented in the store.
IncFieldLost(doc, field) == [doc EXCEPT ![field] = 1]

\* {"$inc": {field: 1}} on one document
IncField(doc, field) == [doc EXCEPT ![field] = @ + 1]

\* cursor.sort(key, direction) on a string field: binary order, documents
\* with equal keys left in natural order
Ordered(docs, key, direction) ==
    \A i \in 1..Len(docs) - 1 :
        IF direction = 1 THEN ~StrLess(docs[i + 1][key], docs[i][key])
                         ELSE ~StrLess(docs[i][key], docs[i + 1][key])

RECURSIVE InsertionSort(_, _, _)
InsertionSort(docs, key, direction) ==
    IF Len(docs) <= 1 THEN docs
    ELSE LET h == Head(docs)
             rest == InsertionSort(Tail(docs), key, direction)
             before == {i \in 1..Len(rest) :
                           IF direction = 1 THEN StrLess(rest[i][key], h[key])
                                            ELSE StrLess(h[key], rest[i][key])}
             k == Cardinality(before)
         IN  SubSeq(rest, 1, k) \o <<h>> \o SubSeq(rest, k + 1, Len(rest))

SortBy(docs, key, direction) ==
    IF Ordered(docs, key, direction) THEN docs
    ELSE InsertionSort(docs, key, direction)

\* dict.pop(key, None)
Pop(data, key) == [f \in DOMAIN data \ {key} |-> data[f]]

\* Faulty variant of the projection: only contact_email is excluded.
PublicViewPhone(doc) == [f \in DOMAIN doc \ {"contact_email"} |-> doc[f]]

\* projection {"contact_email": 0, "contact_phone": 0}
PublicView(doc) ==
    [f \in DOMAIN doc \ {"contact_email", "contact_phone"} |-> doc[f]]

----------------------------------------------------------------------------
(* Pure helpers of the handlers *)

\* Python truth value of an Optional[str]
Truthy(s) == s # None /\ s # ""

\* Faulty variant of calculate_distance: lat1 is not converted to radians
\* in delta_phi.
calculate_distance_degrees(lat1, lon1, lat2, lon2) ==
    DegreesTable[PointOf(lat1, lon1)][PointOf(lat2, lon2)]

calculate_distance(lat1, lon1, lat2, lon2) ==
    DistanceTable[PointOf(lat1, lon1)][PointOf(lat2, lon2)]

\* Faulty variant of is_verified: the flag of the request body is trusted.
IsVerifiedFromClient(input) == input.is_verified

\* create_incident: is_verified = bool(contact_email or contact_phone)
IsVerified(input) == Truthy(input.contact_email) \/ Truthy(input.contact_phone)

\* create_incident: the age test of the loop, "continue" when it fails
AgeEligible(existing, now) ==
    ~(now - FromIsoFormat(existing.timestamp) > Hours(RetentionHours))

\* create_incident: the loop over existing_incidents
ClusterCount(input, existing_incidents, now) ==
    1 + Cardinality({i \in 1..Len(existing_incidents) :
            /\ AgeEligible(existing_incidents[i], now)
            /\ calculate_distance(input.latitude, input.longitude,
                                  existing_incidents[i].latitude,
                                  existing_incidents[i].longitude)
                    <= ClusterRadius})

\* Faulty variant of the cutoff: a seven-hour window.
CutoffTimeLate(now) == now - Hours(RetentionHours + 1)

\* get_incidents: cutoff_time = now - timedelta(hours=6)
CutoffTime(now) == now - Hours(RetentionHours)

\* Faulty variant of the sweep: $lte instead of $lt.
SweepInclusive(coll, now) ==
    SelectSeq(coll, LAMBDA d : StrLess(IsoFormat(CutoffTime(now)), d.timestamp))

\* get_incidents: delete_many({"timestamp": {"$lt": cutoff_time.isoformat()}})
Sweep(coll, now) ==
    SelectSeq(coll, LAMBDA d : ~StrLess(d.timestamp, IsoFormat(CutoffTime(now))))

\* get_incidents: timestamps parsed, then "if hours:" and the time filter
ParseTimestamp(doc) == [doc EXCEPT !.timestamp = FromIsoFormat(@)]

TimeFilter(docs, hours, now) ==
    IF hours # <<>> /\ hours[1] # 0
    THEN SelectSeq(docs, LAMBDA d : d.timestamp >= now - Hours(hours[1]))
    ELSE docs

\* get_incidents after its sweep: the find with its projection, the
\* conversion loop and the hours filter
PublicListing(coll, hours, now) ==
    LET found == ToList(coll, ToListLimit)
        parsed == [i \in 1..Len(found) |-> ParseTimestamp(PublicView(found[i]))]
    IN  TimeFilter(parsed, hours, now)

\* Faulty variant of the sanitising: only the timestamp is removed.
SanitizeUpdateKeepId(update_data) == Pop(update_data, "timestamp")

\* update_incident: update_data.pop('id'); update_data.pop('timestamp')
SanitizeUpdate(update_data) == Pop(Pop(update_data, "id"), "timestamp")

\* Faulty variant of the validation: every reaction is accepted.
ValidReactionAny(kind) == TRUE

\* react_to_incident: reaction.reaction in ["like", "dislike"]
ValidReaction(kind) == kind \in {"like", "dislike"}

\* react_to_incident: the counter a reaction increments
ReactionField(kind) == IF kind = "like" THEN "like_count" ELSE "dislike_count"

----------------------------------------------------------------------------
(* State of the request flows *)

IdleLocal == [t0 |-> 0, id |-> 0, doc |-> <<>>, clean |-> TRUE]

NoResp == [op |-> "none", status |-> 0, body |-> <<>>]

Response(op, status, body) == [op |-> op, status |-> status, body |-> body]

\* History of the other collections: the heartbeat calls made, as pairs of a
\* session and an instant, and the numbers of chat messages and of street
\* highlights created.
NoCalls == [beats |-> {}, posts |-> 0, marks |-> 0]

\* History bookkeeping: a flow suspended between its find and its insert
\* learns that another flow wrote to the collection in between.
AfterWrite(p, mine, coll) ==
    [q \in Procs |->
        IF q = p THEN mine
        ELSE IF pc[q] = "create_insert" /\ coll # incidents
             THEN [local[q] EXCEPT !.clean = FALSE]
             ELSE local[q]]

\* History bookkeeping: the history of a removed document is dropped.
Forget(h, coll) ==
    [id \in {coll[i].id : i \in 1..Len(coll)} |-> h[id]]

Init ==
    /\ clock = 0
    /\ incidents = <<>>
    /\ nextId = 1
    /\ pc = [p \in Procs |-> "idle"]
    /\ local = [p \in Procs |-> IdleLocal]
    /\ resp = NoResp
    /\ hist = <<>>
    /\ used = [reacts |-> 0, updates |-> 0]
    /\ active_users = <<>>
    /\ chat_messages = <<>>
    /\ street_highlights = <<>>
    /\ calls = NoCalls

----------------------------------------------------------------------------
(* POST /incidents *)

\* up to the await of insert_one: the find, the clustering loop, the document
CreateFind(p, input) ==
    /\ resp = NoResp
    /\ pc[p] = "idle"
    /\ LET existing_incidents ==
               ToList(FindByCategory(incidents, input.category), ToListLimit)
           doc == [id |-> nextId,
                   category |-> input.category,
                   description |-> input.description,
                   latitude |-> input.latitude,
                   longitude |-> input.longitude,
                   contact_email |-> input.contact_email,
                   contact_phone |-> input.contact_phone,
                   is_verified |-> IsVerified(input),
                   cluster_count |-> ClusterCount(input, existing_incidents, clock),
                   like_count |-> 0,
                   dislike_count |-> 0,
                   timestamp |-> IsoFormat(clock)]
       IN  local' = [local EXCEPT ![p] = [IdleLocal EXCEPT !.t0 = clock, !.doc = doc]]
    /\ pc' = [pc EXCEPT ![p] = "create_insert"]
    /\ nextId' = nextId + 1
    /\ resp' = NoResp
    /\ UNCHANGED <<clock, incidents, hist, used>>
    /\ UNCHANGED aux

\* Faulty variant of the insert: the handler sweeps the expired incidents
\* before it inserts.
CreateInsertSweeping(p) ==
    /\ resp = NoResp
    /\ pc[p] = "create_insert"
    /\ LET doc == local[p].doc
           coll == InsertOne(Sweep(incidents, clock), doc)
       IN  /\ incidents' = coll
           /\ local' = AfterWrite(p, IdleLocal, coll)
           /\ hist' = Forget(hist @@ (doc.id :> [like |-> 0, dislike |-> 0,
                                                 updated |-> FALSE]),
                             coll)
           /\ resp' = Response("create_incident", 200, doc)
    /\ pc' = [pc EXCEPT ![p] = "idle"]
    /\ UNCHANGED <<clock, nextId, used>>
    /\ UNCHANGED aux

\* insert_one and the response
CreateInsert(p) ==
    /\ resp = NoResp
    /\ pc[p] = "create_insert"
    /\ LET doc == local[p].doc
           coll == InsertOne(incidents, doc)
       IN  /\ incidents' = coll
           /\ local' = AfterWrite(p, IdleLocal, coll)
           /\ hist' = hist @@ (doc.id :> [like |-> 0, dislike |-> 0, updated |-> FALSE])
           /\ resp' = Response("create_incident", 200, doc)
    /\ pc' = [pc EXCEPT ![p] = "idle"]
    /\ UNCHANGED <<clock, nextId, used>>
    /\ UNCHANGED aux

----------------------------------------------------------------------------
(* GET /incidents *)

\* the cleanup delete_many
ListSweep(p) ==
    /\ resp = NoResp
    /\ pc[p] = "idle"
    /\ LET coll == Sweep(incidents, clock)
       IN  /\ incidents' = coll
           /\ local' = AfterWrite(p, [IdleLocal EXCEPT !.t0 = clock], coll)
    /\ pc' = [pc EXCEPT ![p] = "list_find"]
    /\ resp' = NoResp
    /\ hist' = Forget(hist, incidents')
    /\ UNCHANGED <<clock, nextId, used>>
    /\ UNCHANGED aux

\* the find, the conversion loop, the hours filter and the response; the
\* handler first reads its hours argument here
ListFind(p, hours) ==
    /\ resp = NoResp
    /\ pc[p] = "list_find"
    /\ resp' = Response("get_incidents", 200,
                        PublicListing(incidents, hours, clock))
    /\ pc' = [pc EXCEPT ![p] = "idle"]
    /\ local' = [local EXCEPT ![p] = IdleLocal]
    /\ UNCHANGED <<clock, incidents, nextId, hist, used>>
    /\ UNCHANGED aux

----------------------------------------------------------------------------
(* GET /admin/incidents *)

ListAdmin(p) ==
    /\ resp = NoResp
    /\ pc[p] = "idle"
    /\ resp' = Response("get_admin_incidents", 200, ToList(incidents, ToListLimit))
    /\ UNCHANGED <<clock, incidents, nextId, pc, local, hist, used>>
    /\ UNCHANGED aux

----------------------------------------------------------------------------
(* DELETE /admin/incidents/{id} *)

DeleteIncident(p, incident_id) ==
    /\ resp = NoResp
    /\ pc[p] = "idle"
    /\ LET i == FirstMatch(incidents, incident_id)
       IN  IF i = 0
           THEN /\ resp' = Response("delete_incident", 404, <<>>)
                /\ UNCHANGED <<incidents, local>>
           ELSE /\ incidents' = RemoveAt(incidents, i)
                /\ local' = AfterWrite(p, local[p], RemoveAt(incidents, i))
                /\ resp' = Response("delete_incident", 200, <<>>)
    /\ hist' = Forget(hist, incidents')
    /\ UNCHANGED <<clock, nextId, pc, used>>
    /\ UNCHANGED aux

----------------------------------------------------------------------------
(* PUT /admin/incidents/{id} *)

\* update_one({"id": id}, {"$set": update_data}); the store takes an empty
\* $set as an update that sets nothing (MongoDB 5.0 and later).
UpdateIncident(p, incident_id, payload) ==
    /\ resp = NoResp
    /\ pc[p] = "idle"
    /\ LET update_data == SanitizeUpdate(payload)
           i == FirstMatch(incidents, incident_id)
       IN  IF i = 0
           THEN /\ resp' = Response("update_incident", 404, <<>>)
                /\ UNCHANGED <<incidents, local, hist, used>>
           ELSE LET coll == [incidents EXCEPT ![i] = SetFields(@, update_data)]
                IN  /\ incidents' = coll
                    /\ local' = AfterWrite(p, local[p], coll)
                    /\ hist' = [hist EXCEPT ![incident_id].updated = TRUE]
                    /\ used' = [used EXCEPT !.updates = @ + 1]
                    /\ resp' = Response("update_incident", 200, <<>>)
    /\ UNCHANGED <<clock, nextId, pc>>
    /\ UNCHANGED aux

----------------------------------------------------------------------------
(* POST /incidents/{id}/react *)

\* History bookkeeping: the counter a React increments and the value the
\* update_one found in it.
Began(field, doc) == [field |-> field, began |-> doc[field]]

\* the validation and update_one({"id": id}, {"$inc": {field: 1}})
ReactInc(p, incident_id, kind) ==
    /\ resp = NoResp
    /\ pc[p] = "idle"
    /\ LET i == FirstMatch(incidents, incident_id)
           field == ReactionField(kind)
       IN  IF ~ValidReaction(kind)
           THEN /\ resp' = Response("react_to_incident", 400, <<>>)
                /\ UNCHANGED <<incidents, pc, local, hist, used>>
           ELSE IF i = 0
           THEN /\ resp' = Response("react_to_incident", 404, <<>>)
                /\ UNCHANGED <<incidents, pc, local, hist, used>>
           ELSE LET coll == [incidents EXCEPT ![i] = IncField(@, field)]
                IN  /\ incidents' = coll
                    /\ local' = AfterWrite(p, [IdleLocal EXCEPT
                                                  !.t0 = clock,
                                                  !.id = incident_id,
                                                  !.doc = Began(field,
                                                                incidents[i])],
                                           coll)
                    /\ pc' = [pc EXCEPT ![p] = "react_find"]
                    /\ hist' = IF kind = "like"
                               THEN [hist EXCEPT ![incident_id].like = @ + 1]
                               ELSE [hist EXCEPT ![incident_id].dislike = @ + 1]
                    /\ used' = [used EXCEPT !.reacts = @ + 1]
                    /\ resp' = NoResp
    /\ UNCHANGED <<clock, nextId>>
    /\ UNCHANGED aux

\* find_one({"id": id}) and the response
ReactFind(p) ==
    /\ resp = NoResp
    /\ pc[p] = "react_find"
    /\ LET i == FirstMatch(incidents, local[p].id)
       IN  IF i = 0
           THEN resp' = Response("react_to_incident", 404, <<>>)
           ELSE resp' = Response("react_to_incident", 200,
                                 <<incidents[i].like_count, incidents[i].dislike_count>>)
    /\ pc' = [pc EXCEPT ![p] = "idle"]
    /\ local' = [local EXCEPT ![p] = IdleLocal]
    /\ UNCHANGED <<clock, incidents, nextId, hist, used>>
    /\ UNCHANGED aux

----------------------------------------------------------------------------
(* POST /users/heartbeat/{session_id} *)

\* the first document matching {"session_id": s}, 0 when there is none
FirstSession(coll, s) ==
    LET hits == {i \in 1..Len(coll) : coll[i].session_id = s}
    IN  IF hits = {} THEN 0 ELSE CHOOSE i \in hits : \A j \in hits : i <= j

\* user_heartbeat: cutoff = now - timedelta(minutes=2)
PresenceCutoff(now) == now - Minutes(PresenceMinutes)

\* delete_many({"last_heartbeat": {"$lt": cutoff.isoformat()}})
SweepPresence(coll, cutoff) ==
    SelectSeq(coll, LAMBDA d : ~StrLess(d.last_heartbeat, IsoFormat(cutoff)))

\* count_documents({"last_heartbeat": {"$gte": cutoff.isoformat()}})
CountActive(coll, cutoff) ==
    Len(SelectSeq(coll, LAMBDA d : ~StrLess(d.last_heartbeat, IsoFormat(cutoff))))

\* update_one({"session_id": s}, {"$set": {"last_heartbeat": now}},
\* upsert=True), up to the store's decision to insert.  A matching document
\* is updated in place, atomically.  When none matches, the store goes on to
\* insert one; the collection has no unique index on session_id, so the
\* store does not look again before it inserts, and other operations on the
\* collection may be applied between the two phases.
HeartbeatUpsert(p, session_id) ==
    /\ resp = NoResp
    /\ pc[p] = "idle"
    /\ LET i == FirstSession(active_users, session_id)
       IN  IF i = 0
           THEN /\ pc' = [pc EXCEPT ![p] = "heartbeat_insert"]
                /\ UNCHANGED active_users
           ELSE /\ pc' = [pc EXCEPT ![p] = "heartbeat_delete"]
                /\ active_users' =
                      [active_users EXCEPT
                          ![i] = SetFields(@, [last_heartbeat |-> IsoFormat(clock)])]
    /\ local' = [local EXCEPT ![p] = [IdleLocal EXCEPT !.t0 = clock,
                                                      !.id = session_id]]
    /\ calls' = [calls EXCEPT !.beats = @ \cup {<<session_id, clock>>}]
    /\ resp' = NoResp
    /\ UNCHANGED <<clock, incidents, nextId, hist, used>>
    /\ UNCHANGED <<chat_messages, street_highlights>>

\* the insert phase of the upsert
HeartbeatInsert(p) ==
    /\ resp = NoResp
    /\ pc[p] = "heartbeat_insert"
    /\ active_users' =
          InsertOne(active_users,
                    [session_id |-> local[p].id,
                     last_heartbeat |-> IsoFormat(local[p].t0)])
    /\ pc' = [pc EXCEPT ![p] = "heartbeat_delete"]
    /\ resp' = NoResp
    /\ UNCHANGED <<clock, incidents, nextId, local, hist, used>>
    /\ UNCHANGED <<chat_messages, street_highlights, calls>>

\* the cleanup delete_many
HeartbeatDelete(p) ==
    /\ resp = NoResp
    /\ pc[p] = "heartbeat_delete"
    /\ active_users' = SweepPresence(active_users, PresenceCutoff(local[p].t0))
    /\ pc' = [pc EXCEPT ![p] = "heartbeat_count"]
    /\ resp' = NoResp
    /\ UNCHANGED <<clock, incidents, nextId, local, hist, used>>
    /\ UNCHANGED <<chat_messages, street_highlights, calls>>

\* count_documents and the response; the body is active_count
HeartbeatCount(p) ==
    /\ resp = NoResp
    /\ pc[p] = "heartbeat_count"
    /\ resp' = Response("user_heartbeat", 200,
                        [success |-> TRUE,
                         active_count |->
                             CountActive(active_users,
                                         PresenceCutoff(local[p].t0))])
    /\ pc' = [pc EXCEPT ![p] = "idle"]
    /\ local' = [local EXCEPT ![p] = IdleLocal]
    /\ UNCHANGED <<clock, incidents, nextId, hist, used>>
    /\ UNCHANGED aux

----------------------------------------------------------------------------
(* GET /chat/messages, POST /chat/messages *)

\* get_chat_messages: cutoff_time = now - timedelta(hours=24)
ChatCutoff(now) == now - Hours(ChatRetentionHours)

\* delete_many({"timestamp": {"$lt": cutoff_time.isoformat()}})
SweepChat(coll, now) ==
    SelectSeq(coll, LAMBDA d : ~StrLess(d.timestamp, IsoFormat(ChatCutoff(now))))

\* message_data.author or "Anonymous"
AuthorOf(input) == IF Truthy(input.author) THEN input.author ELSE "Anonymous"

\* the cleanup delete_many
ChatSweep(p) ==
    /\ resp = NoResp
    /\ pc[p] = "idle"
    /\ chat_messages' = SweepChat(chat_messages, clock)
    /\ pc' = [pc EXCEPT ![p] = "chat_find"]
    /\ local' = [local EXCEPT ![p] = [IdleLocal EXCEPT !.t0 = clock]]
    /\ resp' = NoResp
    /\ UNCHANGED <<clock, incidents, nextId, hist, used>>
    /\ UNCHANGED <<active_users, street_highlights, calls>>

\* find({}).sort("timestamp", 1).to_list(1000) and the response
ChatFind(p) ==
    /\ resp = NoResp
    /\ pc[p] = "chat_find"
    /\ resp' = Response("get_chat_messages", 200,
                        ToList(SortBy(chat_messages, "timestamp", 1),
                               ToListLimit))
    /\ pc' = [pc EXCEPT ![p] = "idle"]
    /\ local' = [local EXCEPT ![p] = IdleLocal]
    /\ UNCHANGED <<clock, incidents, nextId, hist, used>>
    /\ UNCHANGED aux

\* create_chat_message
ChatCreate(p, input) ==
    /\ resp = NoResp
    /\ pc[p] = "idle"
    /\ LET message_doc == [id |-> calls.posts + 1,
                           message |-> input.message,
                           author |-> AuthorOf(input),
                           timestamp |-> IsoFormat(clock)]
       IN  /\ chat_messages' = InsertOne(chat_messages, message_doc)
           /\ resp' = Response("create_chat_message", 200, message_doc)
    /\ calls' = [calls EXCEPT !.posts = @ + 1]
    /\ UNCHANGED <<clock, incidents, nextId, pc, local, hist, used>>
    /\ UNCHANGED <<active_users, street_highlights>>

----------------------------------------------------------------------------
(* /street-highlights and /admin/street-highlights *)

\* Faulty variant of get_street_highlights: the listing sweeps at 24 hours,
\* as the chat listing does.
StreetListSweeping(p) ==
    /\ resp = NoResp
    /\ pc[p] = "idle"
    /\ street_highlights' =
          SelectSeq(street_highlights,
                    LAMBDA d : ~StrLess(d.created_at, IsoFormat(ChatCutoff(clock))))
    /\ resp' = Response("get_street_highlights", 200,
                        ToList(SortBy(street_highlights', "created_at", -1),
                               ToListLimit))
    /\ UNCHANGED <<clock, incidents, nextId, pc, local, hist, used>>
    /\ UNCHANGED <<active_users, chat_messages, calls>>

\* get_street_highlights
StreetList(p) ==
    /\ resp = NoResp
    /\ pc[p] = "idle"
    /\ resp' = Response("get_street_highlights", 200,
                        ToList(SortBy(street_highlights, "created_at", -1),
                               ToListLimit))
    /\ UNCHANGED <<clock, incidents, nextId, pc, local, hist, used>>
    /\ UNCHANGED aux

\* create_street_highlight
StreetCreate(p, input) ==
    /\ resp = NoResp
    /\ pc[p] = "idle"
    /\ LET highlight_doc ==
               [id |-> calls.marks + 1,
                start_lat |-> input.start_lat,
                start_lng |-> input.start_lng,
                end_lat |-> input.end_lat,
                end_lng |-> input.end_lng,
                color |-> input.color,
                reason |-> input.reason,
                description |-> IF Truthy(input.description)
                                THEN input.description ELSE "",
                created_at |-> IsoFormat(clock),
                created_by |-> "admin"]
       IN  /\ street_highlights' = InsertOne(street_highlights, highlight_doc)
           /\ resp' = Response("create_street_highlight", 200, highlight_doc)
    /\ calls' = [calls EXCEPT !.marks = @ + 1]
    /\ UNCHANGED <<clock, incidents, nextId, pc, local, hist, used>>
    /\ UNCHANGED <<active_users, chat_messages>>

\* update_street_highlight: {k: v for k, v in update_data.items()
\*                            if k in allowed_fields}
AllowedUpdate(update_data) ==
    [f \in DOMAIN update_data \cap {"color", "reason", "description"} |->
        update_data[f]]

\* update_street_highlight, up to the await of find_one
StreetUpdate(p, highlight_id, payload) ==
    /\ resp = NoResp
    /\ pc[p] = "idle"
    /\ LET update_dict == AllowedUpdate(payload)
           i == FirstMatch(street_highlights, highlight_id)
       IN  IF DOMAIN update_dict = {}
           THEN /\ resp' = Response("update_street_highlight", 400, <<>>)
                /\ UNCHANGED <<street_highlights, pc, local>>
           ELSE IF i = 0
           THEN /\ resp' = Response("update_street_highlight", 404, <<>>)
                /\ UNCHANGED <<street_highlights, pc, local>>
           ELSE /\ street_highlights' =
                      [street_highlights EXCEPT
                          ![i] = SetFields(@, update_dict)]
                /\ pc' = [pc EXCEPT ![p] = "street_find"]
                /\ local' = [local EXCEPT
                                ![p] = [IdleLocal EXCEPT !.t0 = clock,
                                                         !.id = highlight_id]]
                /\ resp' = NoResp
    /\ UNCHANGED <<clock, incidents, nextId, hist, used>>
    /\ UNCHANGED <<active_users, chat_messages, calls>>

\* find_one({"id": highlight_id}) and the response
StreetFind(p) ==
    /\ resp = NoResp
    /\ pc[p] = "street_find"
    /\ LET i == FirstMatch(street_highlights, local[p].id)
       IN  resp' = Response("update_street_highlight", 200,
                            IF i = 0 THEN <<>> ELSE street_highlights[i])
    /\ pc' = [pc EXCEPT ![p] = "idle"]
    /\ local' = [local EXCEPT ![p] = IdleLocal]
    /\ UNCHANGED <<clock, incidents, nextId, hist, used>>
    /\ UNCHANGED aux

\* delete_street_highlight
StreetDelete(p, highlight_id) ==
    /\ resp = NoResp
    /\ pc[p] = "idle"
    /\ LET i == FirstMatch(street_highlights, highlight_id)
       IN  IF i = 0
           THEN /\ resp' = Response("delete_street_highlight", 404, <<>>)
                /\ UNCHANGED street_highlights
           ELSE /\ street_highlights' = RemoveAt(street_highlights, i)
                /\ resp' = Response("delete_street_highlight", 200, <<>>)
    /\ UNCHANGED <<clock, incidents, nextId, pc, local, hist, used>>
    /\ UNCHANGED <<active_users, chat_messages, calls>>

----------------------------------------------------------------------------
(* The clock *)

\* Time passes; a request suspended on the store resumes within MaxLatency.
Advance(d) ==
    /\ resp = NoResp
    /\ d > 0
    /\ \A p \in Procs : pc[p] # "idle" => clock + d - local[p].t0 <= MaxLatency
    /\ clock' = clock + d
    /\ resp' = NoResp
    /\ UNCHANGED <<incidents, nextId, pc, local, hist, used>>
    /\ UNCHANGED aux

\* The response of a finished handler is sent before any flow takes its
\* next step.
Deliver ==
    /\ resp # NoResp
    /\ resp' = NoResp
    /\ UNCHANGED <<clock, incidents, nextId, pc, local, hist, used>>
    /\ UNCHANGED aux

----------------------------------------------------------------------------
(* The specification *)

\* A workload: the request flows, the request bodies and arguments they
\* send, the identifiers they name, the instants at which something happens
\* and the number of incidents created, of counters incremented and of
\* incidents updated.
NextIn(w) ==
    \/ Deliver
    \/ \E p \in w.procs, k \in w.inputs :
          nextId <= w.creates /\ CreateFind(p, Inputs[k])
    \/ \E p \in w.procs : CreateInsert(p)
    \/ \E p \in w.procs : ListSweep(p)
    \/ \E p \in w.procs, hours \in w.hours : ListFind(p, hours)
    \/ \E p \in w.procs : ListAdmin(p)
    \/ \E p \in w.procs, id \in w.ids : DeleteIncident(p, id)
    \/ \E p \in w.procs, id \in w.ids, k \in w.payloads :
          used.updates < w.updates /\ UpdateIncident(p, id, Payloads[k])
    \/ \E p \in w.procs, id \in w.ids, kind \in w.kinds :
          used.reacts < w.reacts /\ ReactInc(p, id, kind)
    \/ \E p \in w.procs : ReactFind(p)
    \/ \E t \in w.instants : Advance(t - clock)

\* Listing and expiry: every hours argument, every instant around the expiry
\* of an incident created with and without a fraction of a second.
TimeLoad ==
    [procs |-> Procs, inputs |-> {1, 2}, payloads |-> {4}, ids |-> 1..2,
     kinds |-> Reactions, hours |-> HoursArgs, instants |-> Instants,
     creates |-> 2, reacts |-> 1, updates |-> 1]

Next == NextIn(TimeLoad)

Spec == Init /\ [][Next]_vars

\* Reactions: two flows reacting to the same incidents.
ReactLoad ==
    [procs |-> Procs, inputs |-> {1, 4}, payloads |-> {8}, ids |-> 1..2,
     kinds |-> Reactions, hours |-> {<<>>}, instants |-> {0, 7 * Hour},
     creates |-> 2, reacts |-> MaxReacts, updates |-> MaxUpdates]

NextReact == NextIn(ReactLoad)

SpecReact == Init /\ [][NextReact]_vars

\* Clustering: every request body, one flow, incidents that expire.
ClusterLoad ==
    [procs |-> {"p1"}, inputs |-> 1..Len(Inputs), payloads |-> {2},
     ids |-> 1..MaxIncidents, kinds |-> Reactions, hours |-> {<<>>},
     instants |-> {0, 6 * Hour + 1},
     creates |-> MaxIncidents, reacts |-> 1, updates |-> 1]

NextCluster == NextIn(ClusterLoad)

SpecCluster == Init /\ [][NextCluster]_vars

\* Updates: every payload, the three theft request bodies (with a contact,
\* with none, with empty ones), one kind of reaction.
UpdateLoad ==
    [procs |-> Procs, inputs |-> {1, 2, 3}, payloads |-> 1..Len(Payloads),
     ids |-> 1..2, kinds |-> {"like"}, hours |-> {<<>>},
     instants |-> {0, 6 * Hour + 1},
     creates |-> 2, reacts |-> 1, updates |-> MaxUpdates]

NextUpdate == NextIn(UpdateLoad)

SpecUpdate == Init /\ [][NextUpdate]_vars

\* A full collection: ToListLimit incidents of one category at one place,
\* created one after the other at instant 0, and two more to come.
BulkLoad ==
    [procs |-> {"p1"}, inputs |-> {1}, payloads |-> {2}, ids |-> {1},
     kinds |-> Reactions, hours |-> {<<>>}, instants |-> {0, 1},
     creates |-> ToListLimit + 2, reacts |-> 1, updates |-> 1]

BulkInit ==
    /\ clock = 0
    /\ incidents =
          [i \in 1..ToListLimit |->
              [id |-> i,
               category |-> Inputs[1].category,
               description |-> Inputs[1].description,
               latitude |-> Inputs[1].latitude,
               longitude |-> Inputs[1].longitude,
               contact_email |-> Inputs[1].contact_email,
               contact_phone |-> Inputs[1].contact_phone,
               is_verified |-> IsVerified(Inputs[1]),
               cluster_count |-> i,
               like_count |-> 0,
               dislike_count |-> 0,
               timestamp |-> IsoFormat(0)]]
    /\ nextId = ToListLimit + 1
    /\ pc = [p \in Procs |-> "idle"]
    /\ local = [p \in Procs |-> IdleLocal]
    /\ resp = NoResp
    /\ hist = [id \in 1..ToListLimit |->
                  [like |-> 0, dislike |-> 0, updated |-> FALSE]]
    /\ used = [reacts |-> 0, updates |-> 0]
    /\ active_users = <<>>
    /\ chat_messages = <<>>
    /\ street_highlights = <<>>
    /\ calls = NoCalls

NextBulk == NextIn(BulkLoad)

SpecBulk == BulkInit /\ [][NextBulk]_vars

\* The heartbeat calls of a workload.
PresenceIn(w) ==
    \/ \E p \in w.procs, s \in w.sessions :
          /\ Cardinality(calls.beats \cup {<<s, clock>>}) <= w.beats
          /\ HeartbeatUpsert(p, s)
    \/ \E p \in w.procs : HeartbeatInsert(p)
    \/ \E p \in w.procs : HeartbeatDelete(p)
    \/ \E p \in w.procs : HeartbeatCount(p)

\* The chat calls of a workload.
ChatIn(w) ==
    \/ \E p \in w.procs : ChatSweep(p)
    \/ \E p \in w.procs : ChatFind(p)
    \/ \E p \in w.procs, k \in w.chats :
          calls.posts < w.posts /\ ChatCreate(p, ChatInputs[k])

\* The street highlight calls of a workload.
StreetIn(w) ==
    \/ \E p \in w.procs : StreetList(p)
    \/ \E p \in w.procs, k \in w.streets :
          calls.marks < w.marks /\ StreetCreate(p, StreetInputs[k])
    \/ \E p \in w.procs, id \in w.ids, k \in w.changes :
          StreetUpdate(p, id, StreetPayloads[k])
    \/ \E p \in w.procs : StreetFind(p)
    \/ \E p \in w.procs, id \in w.ids : StreetDelete(p, id)

\* Presence: two flows, two sessions, the instants around the end of the
\* two-minute window of a heartbeat sent with and without a fraction.
PresenceLoad ==
    [procs |-> Procs, sessions |-> {1, 2}, beats |-> MaxBeats,
     instants |-> {0, 1, Minutes(2), Minutes(2) + 1, Minutes(3)}]

NextPresence ==
    \/ Deliver
    \/ \E t \in PresenceLoad.instants : Advance(t - clock)
    \/ PresenceIn(PresenceLoad)

SpecPresence == Init /\ [][NextPresence]_vars

\* Every handler: one flow, the instants at which an incident and a chat
\* message expire.
WholeLoad ==
    [procs |-> {"p1"}, inputs |-> {1}, payloads |-> {3}, ids |-> {1},
     kinds |-> {"like"}, hours |-> {<<>>},
     instants |-> {0, Hours(6) + 1, Hours(24) + 1},
     creates |-> 2, reacts |-> 1, updates |-> 1,
     sessions |-> {1}, beats |-> 2,
     chats |-> {2}, posts |-> 1,
     streets |-> {1}, marks |-> 1, changes |-> {1, 4}]

NextWhole ==
    \/ NextIn(WholeLoad)
    \/ PresenceIn(WholeLoad)
    \/ ChatIn(WholeLoad)
    \/ StreetIn(WholeLoad)

SpecWhole == Init /\ [][NextWhole]_vars

\* A full chat: ToListLimit messages posted one after the other at instant
\* 0, and more to come.
ChatBulkLoad ==
    [procs |-> {"p1"}, chats |-> 1..Len(ChatInputs),
     posts |-> ToListLimit + MaxPosts, instants |-> {0, 1, Hours(24) + 1}]

ChatBulkInit ==
    /\ clock = 0
    /\ incidents = <<>>
    /\ nextId = 1
    /\ pc = [p \in Procs |-> "idle"]
    /\ local = [p \in Procs |-> IdleLocal]
    /\ resp = NoResp
    /\ hist = <<>>
    /\ used = [reacts |-> 0, updates |-> 0]
    /\ active_users = <<>>
    /\ chat_messages =
          [i \in 1..ToListLimit |->
              [id |-> i,
               message |-> ChatInputs[1].message,
               author |-> AuthorOf(ChatInputs[1]),
               timestamp |-> IsoFormat(0)]]
    /\ street_highlights = <<>>
    /\ calls = [NoCalls EXCEPT !.posts = ToListLimit]

NextChatBulk ==
    \/ Deliver
    \/ \E t \in ChatBulkLoad.instants : Advance(t - clock)
    \/ ChatIn(ChatBulkLoad)

SpecChatBulk == ChatBulkInit /\ [][NextChatBulk]_vars

----------------------------------------------------------------------------
(* Claims about the listings *)

\* age of a stored document at an instant
AgeAt(doc, now) == now - FromIsoFormat(doc.timestamp)

SixHours == Hours(6)

\* C2: a public listing returns no incident that was older than six hours
\* when the call computed its cutoff, and when the call completes the store
\* holds no incident that was older than six hours at that cutoff.
C2_PublicListingSweeps ==
    [][\A p \in Procs :
          resp'.op = "get_incidents" /\ pc[p] = "list_find" /\ pc'[p] = "idle" =>
            /\ \A i \in 1..Len(resp'.body) :
                  local[p].t0 - resp'.body[i].timestamp <= SixHours
            /\ \A i \in 1..Len(incidents') :
                  AgeAt(incidents'[i], local[p].t0) <= SixHours]_vars

\* C2 witness: a public listing has answered with the incident that is exactly
\* six hours old, the older one being gone.
C2_Witness ==
    /\ resp.op = "get_incidents"
    /\ Len(resp.body) = 1
    /\ Len(incidents) = 1
    /\ incidents[1].id = 2
    /\ AgeAt(incidents[1], clock) = SixHours

\* C3: an admin listing returns no incident older than six hours.
C3_AdminListingSweeps ==
    resp.op = "get_admin_incidents" =>
        \A i \in 1..Len(resp.body) : AgeAt(resp.body[i], clock) <= SixHours

\* C9: with hours = h supplied, the public listing returns exactly the stored
\* incidents that are unexpired and not older than h hours.
C9_HoursFilter ==
    [][\A p \in Procs, h \in HoursArgs :
          resp'.op = "get_incidents" /\ h # <<>> /\ ListFind(p, h) =>
            resp'.body =
              SelectSeq([i \in 1..Len(incidents) |->
                            ParseTimestamp(PublicView(incidents[i]))],
                        LAMBDA d : /\ local[p].t0 - d.timestamp <= SixHours
                                   /\ clock - d.timestamp <= Hours(h[1]))]_vars

\* the contact_email and contact_phone values two stores may differ in
ContactValues == {<<None, None>>, <<"a@b.c", "0401">>}

\* the stores that differ from a store only in the contact fields of its
\* incidents
ContactVariants(coll) ==
    {[i \in 1..Len(coll) |->
         [coll[i] EXCEPT !.contact_email = f[i][1], !.contact_phone = f[i][2]]] :
     f \in [1..Len(coll) -> ContactValues]}

\* C11: the answer of a public listing is the answer it would give on any
\* store that differs only in contact_email and contact_phone values, with
\* the same hours argument at the same instant; an admin listing answers
\* with the contact fields as they are stored.
C11_ContactsHidden ==
    [][/\ resp'.op = "get_incidents" =>
            \A h \in HoursArgs :
                resp'.body = PublicListing(incidents, h, clock) =>
                    \A other \in ContactVariants(incidents) :
                        PublicListing(other, h, clock) = resp'.body
       /\ resp'.op = "get_admin_incidents" =>
            /\ Len(resp'.body) = Len(incidents)
            /\ \A i \in 1..Len(incidents) :
                   /\ resp'.body[i].id = incidents[i].id
                   /\ resp'.body[i].contact_email = incidents[i].contact_email
                   /\ resp'.body[i].contact_phone = incidents[i].contact_phone]_vars

\* C11 witness: a public listing has answered with two incidents, one stored
\* with an email address and one without.
C11_Witness ==
    /\ resp.op = "get_incidents"
    /\ Len(resp.body) = 2
    /\ Len(incidents) = 2
    /\ incidents[1].contact_email # incidents[2].contact_email

\* C16: at every instant, a stored incident passes the age test of the
\* clustering loop iff the sweep of a public listing at that instant would
\* keep it.
C16_WindowsAgree ==
    \A i \in 1..Len(incidents) :
        AgeEligible(incidents[i], clock) <=> Sweep(<<incidents[i]>>, clock) # <<>>

\* C16 witness: a Create has counted an incident that is exactly six hours
\* old into its cluster.
C16_Witness ==
    /\ resp.op = "create_incident"
    /\ resp.body.cluster_count = 2
    /\ \E i \in 1..Len(incidents) :
          /\ incidents[i].id # resp.body.id
          /\ AgeAt(incidents[i], clock) = SixHours

----------------------------------------------------------------------------
(* Claims about reactions *)

\* C1: the stored counters of an incident that was not updated since its
\* creation equal the numbers of like and dislike increments its React calls
\* applied, however the calls interleave.
C1_NoLostReaction ==
    \A i \in 1..Len(incidents) :
        LET d == incidents[i]
        IN  ~hist[d.id].updated =>
                /\ d.like_count = hist[d.id].like
                /\ d.dislike_count = hist[d.id].dislike

\* C1 witness: two flows have liked the same incident and both are still
\* waiting for their find_one; the incident holds two likes.
C1_Witness ==
    /\ \A p \in Procs : pc[p] = "react_find"
    /\ \E i \in 1..Len(incidents) :
          /\ \A p \in Procs : local[p].id = incidents[i].id
          /\ ~hist[incidents[i].id].updated
          /\ incidents[i].like_count = 2

\* C7: a reaction that is neither like nor dislike is answered 400 whether
\* or not the id exists, a like or dislike on an id that matches no incident
\* is answered 404, and neither changes a stored incident.
C7_ReactErrors ==
    [][\A p \in Procs, id \in 1..MaxIncidents, kind \in Reactions :
          resp'.op = "react_to_incident" /\ ReactInc(p, id, kind) =>
            /\ kind \notin {"like", "dislike"} =>
                  resp'.status = 400 /\ incidents' = incidents
            /\ kind \in {"like", "dislike"} /\ FirstMatch(incidents, id) = 0 =>
                  resp'.status = 404 /\ incidents' = incidents]_vars

\* C7 witness: a 400 answer while the store holds an incident with a like.
C7_Witness ==
    /\ resp.op = "react_to_incident"
    /\ resp.status = 400
    /\ \E i \in 1..Len(incidents) : incidents[i].like_count = 1

\* the counter of a kind in the answer of a React
Reported(body, field) == IF field = "like_count" THEN body[1] ELSE body[2]

\* C21: a React that has incremented a counter is not answered 404, and its
\* answer reports, for the counter it incremented, at least 1 more than the
\* value stored when the call began, whatever Delete, Update and React calls
\* run meanwhile.
C21_ReactAnswersItsIncrement ==
    [][\A p \in Procs :
          pc[p] = "react_find" /\ pc'[p] = "idle" =>
            /\ resp'.status # 404
            /\ resp'.status = 200 =>
                  Reported(resp'.body, local[p].doc.field)
                      >= local[p].doc.began + 1]_vars

----------------------------------------------------------------------------
(* Claims about clustering *)

\* the stored incidents a new document is clustered with
ClusteredWith(doc, coll) ==
    {i \in 1..Len(coll) :
        /\ coll[i].category = doc.category
        /\ AgeAt(coll[i], FromIsoFormat(doc.timestamp)) <= SixHours
        /\ calculate_distance(doc.latitude, doc.longitude,
                              coll[i].latitude, coll[i].longitude) <= 500}

\* C4: a Create that no other write interleaves with stores a cluster_count
\* of 1 plus the number of stored incidents of the same category, at most six
\* hours old at creation and at most 500 m away, however many the store holds.
C4_ClusterCountsWholeStore ==
    [][\A p \in Procs :
          resp'.op = "create_incident" /\ CreateInsert(p) /\ local[p].clean =>
            local[p].doc.cluster_count
                = 1 + Cardinality(ClusteredWith(local[p].doc, incidents))]_vars

\* the identifiers in a collection
IdsOf(coll) == {coll[i].id : i \in 1..Len(coll)}

\* C5: a step that adds an incident to the store or removes one from it (a
\* Create, a Delete, an expiry sweep) changes no field of any other incident.
C5_SnapshotFrame ==
    [][IdsOf(incidents') # IdsOf(incidents) =>
          \A i \in 1..Len(incidents), j \in 1..Len(incidents') :
              incidents[i].id = incidents'[j].id => incidents'[j] = incidents[i]]_vars

\* C5 witness: the second incident of a cluster is alone in the store, its
\* sibling removed, and still carries cluster_count 2.
C5_Witness ==
    /\ Len(incidents) = 1
    /\ incidents[1].id = 2
    /\ incidents[1].cluster_count = 2

\* C20: the cluster_count a Create stores counts every incident of the same
\* category, at most 500 m away and at most six hours old, that is in the
\* store when the new incident is inserted, whatever other requests are in
\* progress.
C20_CountsEarlierInserts ==
    [][\A p \in Procs :
          resp'.op = "create_incident" /\ pc[p] = "create_insert"
                                      /\ pc'[p] = "idle" =>
            local[p].doc.cluster_count
                >= 1 + Cardinality(ClusteredWith(local[p].doc, incidents))]_vars

C17_CountersInRange ==
    /\ \A i \in 1..Len(incidents) :
           /\ incidents[i].cluster_count >= 1
           /\ incidents[i].like_count >= 0
           /\ incidents[i].dislike_count >= 0
    /\ resp.op = "create_incident" =>
           resp.body.like_count = 0 /\ resp.body.dislike_count = 0

\* C18: a step removes an incident from the store only if it is the sweep
\* of a public listing and the incident is older than six hours, or an admin
\* Delete of that incident; a React or an Update of a stored incident older
\* than six hours succeeds.
C18_LazyExpiry ==
    [][/\ \A i \in 1..Len(incidents) :
             incidents[i].id \notin IdsOf(incidents') =>
                \/ /\ \E p \in Procs : pc[p] = "idle" /\ pc'[p] = "list_find"
                   /\ AgeAt(incidents[i], clock) > SixHours
                \/ /\ resp'.op = "delete_incident"
                   /\ resp'.status = 200
                   /\ IdsOf(incidents') = IdsOf(incidents) \ {incidents[i].id}
       /\ \A p \in Procs, id \in IdsOf(incidents) :
             LET i == FirstMatch(incidents, id)
             IN  AgeAt(incidents[i], clock) > SixHours =>
                    /\ ReactInc(p, id, "like") =>
                          incidents'[i].like_count = incidents[i].like_count + 1
                    /\ \A k \in 1..Len(Payloads) :
                          UpdateIncident(p, id, Payloads[k]) =>
                              resp'.status = 200]_vars

\* C18 witness: an incident older than six hours has been updated and a
\* React on it has answered with its like.
C18_Witness ==
    /\ resp.op = "react_to_incident"
    /\ resp.status = 200
    /\ clock = Hours(6) + 1
    /\ \E i \in 1..Len(incidents) :
          /\ AgeAt(incidents[i], clock) > SixHours
          /\ incidents[i].like_count = 1
          /\ incidents[i].description = "x"

----------------------------------------------------------------------------
(* Claims about presence *)

\* the sessions with a record whose last heartbeat is at most two minutes
\* before an instant
ActiveSessions(coll, now) ==
    {coll[i].session_id : i \in
        {j \in 1..Len(coll) :
            now - FromIsoFormat(coll[j].last_heartbeat) <= Minutes(2)}}

\* C12: a heartbeat call of session s answers with the number of distinct
\* sessions whose last heartbeat is at most two minutes older than the call,
\* s among them, and leaves no record older than that in the store.
C12_HeartbeatCount ==
    [][\A p \in Procs :
          pc[p] = "heartbeat_count" /\ pc'[p] = "idle" =>
            /\ resp'.body.active_count
                   = Cardinality(ActiveSessions(active_users, local[p].t0))
            /\ local[p].id \in ActiveSessions(active_users, local[p].t0)
            /\ resp'.body.active_count >= 1
            /\ \A i \in 1..Len(active_users') :
                   local[p].t0 - FromIsoFormat(active_users'[i].last_heartbeat)
                       <= Minutes(2)]_vars

\* C19: the presence store holds at most one record per session, and the
\* last_heartbeat of a record is the instant of a heartbeat call of its
\* session.
C19_OneRecordPerSession ==
    /\ \A i, j \in 1..Len(active_users) :
           active_users[i].session_id = active_users[j].session_id => i = j
    /\ \A i \in 1..Len(active_users) :
           <<active_users[i].session_id,
             FromIsoFormat(active_users[i].last_heartbeat)>> \in calls.beats

----------------------------------------------------------------------------
(* Claims about the chat and the street highlights *)

DayLong == Hours(24)

\* C14: a chat listing answers with exactly the stored messages that are at
\* most 24 hours old, in ascending order of timestamp, and a step removes
\* or changes a stored message only if it is the sweep of a chat listing and
\* the message is older than 24 hours.
C14_ChatRetention ==
    [][/\ \A p \in Procs :
             pc[p] = "chat_find" /\ pc'[p] = "idle" =>
               LET body == resp'.body
                   returned == IdsOf(body)
                   fresh == {i \in 1..Len(chat_messages) :
                               AgeAt(chat_messages[i], clock) <= DayLong}
               IN  /\ \A j \in 1..Len(body) :
                          AgeAt(body[j], local[p].t0) <= DayLong
                   /\ \A i \in fresh : chat_messages[i].id \in returned
                   /\ \A j \in 1..Len(body) - 1 :
                          FromIsoFormat(body[j].timestamp)
                              <= FromIsoFormat(body[j + 1].timestamp)
       /\ chat_messages' # chat_messages =>
             \/ /\ Len(chat_messages') > Len(chat_messages)
                /\ SubSeq(chat_messages', 1, Len(chat_messages)) = chat_messages
             \/ /\ \E p \in Procs : pc[p] = "idle" /\ pc'[p] = "chat_find"
                /\ chat_messages' =
                      SelectSeq(chat_messages,
                                LAMBDA d : AgeAt(d, clock) <= DayLong)]_vars

\* C13: a step removes a street highlight from the store only if it is an
\* admin delete of that highlight's id, and a step changes the street
\* highlights only if it is a call of a street highlight endpoint.
C13_HighlightsPersist ==
    [][/\ \A i \in 1..Len(street_highlights) :
             street_highlights[i].id \notin IdsOf(street_highlights') =>
                /\ resp'.op = "delete_street_highlight"
                /\ resp'.status = 200
                /\ IdsOf(street_highlights')
                      = IdsOf(street_highlights) \ {street_highlights[i].id}
       /\ street_highlights' # street_highlights =>
             \/ resp'.op \in {"create_street_highlight",
                              "delete_street_highlight"}
             \/ \E p \in Procs : pc[p] = "idle" /\ pc'[p] = "street_find"]_vars

\* C13 witness: a street highlight older than 24 hours is in the store when
\* a chat listing, which sweeps at 24 hours, has answered.
C13_Witness ==
    /\ resp.op = "get_chat_messages"
    /\ \E i \in 1..Len(street_highlights) :
          clock - FromIsoFormat(street_highlights[i].created_at) > DayLong

----------------------------------------------------------------------------
(* Claims about updates *)

\* C6: an Update of a stored incident leaves its id and timestamp, gives the
\* other fields named in the payload the payload's values and leaves every
\* other field and every other incident as they were; an Update of an id that
\* matches no incident is answered 404 and changes nothing.
C6_UpdateMerges ==
    [][resp'.op = "update_incident" =>
        \A p \in Procs, id \in UpdateLoad.ids, k \in 1..Len(Payloads) :
          UpdateIncident(p, id, Payloads[k]) =>
            LET i == FirstMatch(incidents, id)
                named == DOMAIN Payloads[k] \ {"id", "timestamp"}
            IN  IF i = 0
                THEN resp'.status = 404 /\ incidents' = incidents
                ELSE /\ resp'.status = 200
                     /\ Len(incidents') = Len(incidents)
                     /\ \A j \in 1..Len(incidents) :
                           \A f \in DOMAIN incidents[j] :
                               incidents'[j][f] =
                                   IF j = i /\ f \in named
                                   THEN Payloads[k][f]
                                   ELSE incidents[j][f]]_vars

\* C6 witness: the payload {"id": 99, "description": "x"} was applied: the
\* description changed and the id did not.
C6_Witness ==
    /\ resp.op = "update_incident"
    /\ resp.status = 200
    /\ \E i \in 1..Len(incidents) :
          incidents[i].description = "x" /\ incidents[i].id \in 1..MaxIncidents

\* C8: an Update whose payload is empty, or names only id and timestamp, is
\* answered 400 and leaves the store unchanged.
C8_EmptyUpdateRejected ==
    [][\A p \in Procs, id \in 1..MaxIncidents, k \in 1..Len(Payloads) :
          /\ resp'.op = "update_incident"
          /\ DOMAIN Payloads[k] \subseteq {"id", "timestamp"}
          /\ UpdateIncident(p, id, Payloads[k])
          => resp'.status = 400 /\ incidents' = incidents]_vars

\* a contact field that was supplied and is not empty
Supplied(s) == s \notin {None, ""}

\* C10, first half: the is_verified of a new incident is true iff a non-empty
\* contact email or phone was supplied, whatever is_verified the client sent.
VerifiedAtCreation ==
    \A p \in Procs, k \in 1..Len(Inputs) :
        nextId' # nextId /\ CreateFind(p, Inputs[k]) =>
            (local'[p].doc.is_verified <=>
                Supplied(Inputs[k].contact_email) \/ Supplied(Inputs[k].contact_phone))

\* C10 as claimed: and no step changes the is_verified of a stored incident.
C10_VerifiedNeverChanges ==
    [][/\ VerifiedAtCreation
       /\ \A i \in 1..Len(incidents), j \in 1..Len(incidents') :
             incidents[i].id = incidents'[j].id =>
                 incidents'[j].is_verified = incidents[i].is_verified]_vars

\* C10 as amended: and the only step that changes the is_verified of a stored
\* incident is an Update of it whose payload names is_verified.
C10_VerifiedUnlessUpdated ==
    [][/\ VerifiedAtCreation
       /\ \A i \in 1..Len(incidents), j \in 1..Len(incidents') :
             /\ incidents[i].id = incidents'[j].id
             /\ incidents'[j].is_verified # incidents[i].is_verified
             => \E p \in Procs, k \in 1..Len(Payloads) :
                   /\ "is_verified" \in DOMAIN Payloads[k]
                   /\ UpdateIncident(p, incidents[i].id, Payloads[k])]_vars

\* C10 witness: an incident created with a contact email (the first request
\* body) has had its contact fields cleared by an Update and is still verified.
C10_Witness ==
    \E i \in 1..Len(incidents) :
        /\ incidents[i].category = Inputs[1].category
        /\ incidents[i].latitude = Inputs[1].latitude
        /\ incidents[i].contact_email = None
        /\ incidents[i].is_verified

====
